---- MODULE Spec2Model ----
(***************************************************************************)
(* Model of two parts of the Media SDK sources:                            *)
(*   - the HEVC 10-bit encode tutorial's main(): the feeding loop          *)
(*     (Stage 1) and the drain loop (Stage 2) around EncodeFrameAsync and  *)
(*     SyncOperation (simple_encode_hevc10.cpp);                           *)
(*   - the Gen12 GetMaxNumRef layer pushed by Caps::Query1NoCaps           *)
(*     (hevcehw_g12_caps.cpp).                                             *)
(* Spec is the encode session; SpecRef applies the GetMaxNumRef layer to   *)
(* inputs drawn from bounded sets.                                         *)
(***************************************************************************)
EXTENDS Integers, Sequences, FiniteSets

\* ------------------------------------------------------------------ bounds
\* longest input (frames the source can deliver before exhaustion)
MaxFrames == 3
\* most frames the device holds back before it must emit one
MaxBuffered == 2
\* largest TargetUsage, GopRefDist and hardware maximum tried in SpecRef
MaxTU == 9
MaxGop == 3
MaxCapRef == 5
\* feature identities sharing one storage
NumFeatures == 2
\* invocations of a query-stage callback on one storage
MaxQueries == 3

\* --------------------------------------------------------- status codes
MFX_ERR_NONE == 0
MFX_ERR_MEMORY_ALLOC == -4
MFX_ERR_NOT_ENOUGH_BUFFER == -5
MFX_ERR_NOT_FOUND == -9
MFX_ERR_MORE_DATA == -10
MFX_ERR_UNDEFINED_BEHAVIOR == -16
MFX_ERR_DEVICE_FAILED == -17
MFX_WRN_IN_EXECUTION == 1
MFX_WRN_DEVICE_BUSY == 2
MFX_WRN_VIDEO_PARAM_CHANGED == 3

\* a null mfxSyncPoint / a null surface argument
NULL == 0

\* ------------------------------------------------------------- macros
\* MSDK_CHECK_RESULT(P, X, ERR): return ERR when X > P
MSDK_CHECK_RESULT(P, X) == X > P
\* MSDK_IGNORE_MFX_STS(P, X): P becomes MFX_ERR_NONE when it equals X
MSDK_IGNORE_MFX_STS(P, X) == IF X = P THEN MFX_ERR_NONE ELSE P
\* MSDK_BREAK_ON_ERROR(P): break when P is not MFX_ERR_NONE
MSDK_BREAK_ON_ERROR(P) == P # MFX_ERR_NONE

VARIABLES
    pc,            \* position of main() in the encode loops
    sts,           \* mfxStatus sts
    ret,           \* main()'s return value once pc = "done"
    nEncSurfIdx,   \* int nEncSurfIdx (1-based here: C's 0 is surface 1)
    syncp,         \* mfxSyncPoint syncp (NULL or a handle)
    nFrame,        \* mfxU32 nFrame
    bEnableOutput, \* bool bEnableOutput
    bsLen,         \* mfxBS.DataLength, in encoded units
    bsMax,         \* mfxBS.MaxLength, in units of the initial size
    bsFrame,       \* the frame whose encoded unit lies in mfxBS (0: none)
    surfData,      \* pEncSurfaces[i]: the input frame loaded into surface i
    locked,        \* the surfaces whose Data.Locked is set by the device
    inputLen,      \* frames the source holds
    inputPos,      \* frames read from the source so far
    sink,          \* frames appended to the output file, in order
    devQueue,      \* device: accepted frames not yet emitted, oldest first
    devTasks,      \* device: handle -> the work it stands for, unresolved
    nHandles,      \* device: handles produced so far
    resp,          \* the device's answer to the last EncodeFrameAsync
    arg,           \* the arguments of the last EncodeFrameAsync
    hist,          \* observations of the run (see HistInit)
    rpar,          \* GetMaxNumRef: the Defaults::Param it is called with
    rres,          \* GetMaxNumRef: the tuple returned
    rprev,         \* GetMaxNumRef: the tuple returned by the call before
    rpc,           \* GetMaxNumRef: position of the caller
    SetForFeature, \* defaults.SetForFeature: feature id -> its layers are pushed
    chain,         \* defaults.GetMaxNumRef: the layers pushed, oldest first
    nCalls,        \* BLK_SetDefaultsCallChain invocations per feature id
    qsts,          \* status the last BLK_SetDefaultsCallChain returned
    caps,          \* Glob::EncodeCaps: the capability descriptor
    capsBefore,    \* the descriptor when BLK_HardcodeCaps was entered
    capsBase,      \* the descriptor handed to SetSpecificCaps
    cpar,          \* the mfxVideoParam of the last BLK_HardcodeCaps
    nHardcode,     \* BLK_HardcodeCaps invocations
    nBody,         \* executions of the writes and the hook of BLK_HardcodeCaps
    hsts           \* status the last BLK_HardcodeCaps returned

encVars == <<pc, sts, ret, nEncSurfIdx, syncp, nFrame, bEnableOutput, bsLen,
             bsMax, bsFrame, surfData, locked, inputLen, inputPos, sink,
             devQueue, devTasks, nHandles, resp, arg, hist>>
refVars == <<rpar, rres, rprev, rpc>>
chainVars == <<SetForFeature, chain, nCalls, qsts>>
capsVars == <<caps, capsBefore, capsBase, cpar, nHardcode, nBody, hsts>>
otherVars == <<refVars, chainVars, capsVars>>
vars == <<pc, sts, ret, nEncSurfIdx, syncp, nFrame, bEnableOutput, bsLen,
          bsMax, bsFrame, surfData, locked, inputLen, inputPos, sink,
          devQueue, devTasks, nHandles, resp, arg, hist,
          rpar, rres, rprev, rpc,
          SetForFeature, chain, nCalls, qsts,
          caps, capsBefore, capsBase, cpar, nHardcode, nBody, hsts>>

\* mfxU16 nEncSurfNum = EncRequest.NumFrameSuggested: the device asks for one
\* surface more than it may hold back
nEncSurfNum == MaxBuffered + 1
Surfaces == 1 .. nEncSurfNum

\* no answer / no call yet
NoResp == [sts |-> MFX_ERR_NONE, syncp |-> NULL, valid |-> FALSE]
NoArg == [surface |-> NULL, frame |-> 0, bsLen |-> 0, valid |-> FALSE]


\* ------------------------------------------------------- observations
\* What has happened in the run so far; written by the actions, read only by
\* the properties.
HistInit ==
    [ syncCnt        |-> [h \in 1 .. MaxFrames |-> 0], \* SyncOperation calls per handle
      final          |-> MFX_ERR_NONE, \* status the last retry loop ended with
      badSync        |-> FALSE, \* SyncOperation for a submission that did not succeed
      inputExhausted |-> FALSE, \* LoadRaw10BitFrame returned MFX_ERR_MORE_DATA
      nullIssued     |-> FALSE, \* EncodeFrameAsync(NULL surface) was called
      realAfterNull  |-> FALSE, \* a real surface was submitted after a null one
      termSeen       |-> FALSE, \* a null submission returned MFX_ERR_MORE_DATA
      callAfterTerm  |-> FALSE, \* a device call was made after that
      kAtExhaust     |-> -1,    \* frames buffered in the device at exhaustion
      drainSubmits   |-> 0,     \* null submissions that produced a handle
      drainSyncs     |-> 0,     \* SyncOperation calls of the drain loop
      fatal          |-> MFX_ERR_NONE, \* first fatal status of EncodeFrameAsync
      callAfterFatal |-> FALSE, \* a device call was made after that
      shortSeen      |-> FALSE, \* EncodeFrameAsync returned NOT_ENOUGH_BUFFER
      busyRetried    |-> FALSE, \* EncodeFrameAsync was called again after "busy"
      timedOut       |-> FALSE, \* a SyncOperation timed out
      curTimedOut    |-> FALSE, \* the last SyncOperation timed out
      timeoutCounted |-> FALSE, \* nFrame was incremented for a timed-out unit
      timeoutWritten |-> FALSE, \* WriteBitStreamFrame ran for a timed-out unit
      callAfterTimeout |-> FALSE, \* a device call was made after a timeout
      nSyncs         |-> 0,     \* SyncOperation calls so far
      orderBroken    |-> FALSE, \* a handle was synchronized out of its turn
      lastWarn       |-> FALSE, \* the last retry loop ended on a warning with a handle
      warnCounted    |-> FALSE, \* nFrame was incremented for such a submission
      bufferedSeen   |-> FALSE, \* a real submission returned MFX_ERR_MORE_DATA
      otherNegative  |-> FALSE, \* a negative status other than MFX_ERR_MORE_DATA was seen
      accepted       |-> 0,     \* loaded frames EncodeFrameAsync accepted
      okSyncs        |-> 0 ]    \* SyncOperation calls that returned MFX_ERR_NONE

\* --------------------------------------------------------- collaborators
\* GetFreeSurfaceIndex(pEncSurfaces): the first surface whose Data.Locked is
\* clear, MFX_ERR_NOT_FOUND when there is none
GetFreeSurfaceIndex(lockedSet) ==
    IF \E i \in Surfaces : i \notin lockedSet
    THEN CHOOSE i \in Surfaces :
            i \notin lockedSet /\ \A j \in Surfaces : j < i => j \in lockedSet
    ELSE MFX_ERR_NOT_FOUND

\* LoadRaw10BitFrame(surface, fSource): MFX_ERR_MORE_DATA at the end of input
LoadRaw10BitFrame(pos, len) ==
    IF pos < len THEN MFX_ERR_NONE ELSE MFX_ERR_MORE_DATA

\* WriteBitStreamFrame(&mfxBS, fSink): success, or the write fell short
WriteOutcomes == {MFX_ERR_NONE, MFX_ERR_UNDEFINED_BEHAVIOR}

\* the sink after WriteBitStreamFrame wrote mfxBS.DataLength bytes to it: the
\* unit lying in mfxBS, or nothing when DataLength is 0
WriteBitStreamFrame(out) == IF bsLen > 0 THEN Append(out, bsFrame) ELSE out

\* Positive statuses EncodeFrameAsync may return
WarningsNoHandle == {MFX_WRN_DEVICE_BUSY, MFX_WRN_VIDEO_PARAM_CHANGED}
WarningsWithHandle == {MFX_WRN_VIDEO_PARAM_CHANGED}

\* The device's possible answers to EncodeFrameAsync(surface, &mfxBS, &syncp):
\*   wait   - a warning and no handle, nothing accepted
\*   buffer - the frame is accepted and held back: MFX_ERR_MORE_DATA
\*   emit   - the oldest accepted frame is turned into a task with a handle,
\*            with MFX_ERR_NONE or a warning
\*   short  - MFX_ERR_NOT_ENOUGH_BUFFER, nothing accepted
\*   fail   - a fatal status, nothing accepted
\*   dry    - a null surface and nothing held back: MFX_ERR_MORE_DATA
DeviceAnswers(surface, queue) ==
    [kind : {"wait"}, sts : WarningsNoHandle]
    \cup [kind : {"short"}, sts : {MFX_ERR_NOT_ENOUGH_BUFFER}]
    \cup [kind : {"fail"}, sts : {MFX_ERR_DEVICE_FAILED}]
    \cup (IF surface # NULL /\ Len(queue) < MaxBuffered
          THEN [kind : {"buffer"}, sts : {MFX_ERR_MORE_DATA}] ELSE {})
    \cup (IF surface # NULL \/ Len(queue) > 0
          THEN [kind : {"emit"}, sts : {MFX_ERR_NONE} \cup WarningsWithHandle]
          ELSE {})
    \cup (IF surface = NULL /\ Len(queue) = 0
          THEN [kind : {"dry"}, sts : {MFX_ERR_MORE_DATA}] ELSE {})

\* The device's queue with the submitted frame accepted
Accepted(surface, queue) ==
    IF surface = NULL THEN queue
    ELSE Append(queue, [surface |-> surface, frame |-> surfData[surface]])

\* The device's side of one EncodeFrameAsync call answered with a. The call
\* writes *syncp every time: the new handle, or NULL when none is produced.
\* A surface the device accepts stays locked until the handle of its frame is
\* resolved.
DeviceEncode(surface, a) ==
    LET q == Accepted(surface, devQueue)
        accepts == a.kind \in {"buffer", "emit"}
        h == nHandles + 1
    IN  /\ devQueue' = IF a.kind = "buffer" THEN q
                       ELSE IF a.kind = "emit" THEN Tail(q)
                       ELSE devQueue
        /\ devTasks' = IF a.kind = "emit" THEN devTasks \cup {[h |-> h, job |-> Head(q)]}
                       ELSE devTasks
        /\ nHandles' = IF a.kind = "emit" THEN h ELSE nHandles
        /\ locked' = IF accepts /\ surface # NULL THEN locked \cup {surface}
                     ELSE locked
        /\ resp' = [sts |-> a.sts,
                    syncp |-> IF a.kind = "emit" THEN h ELSE NULL,
                    valid |-> TRUE]
        /\ arg' = [surface |-> surface,
                   frame |-> IF surface = NULL THEN 0 ELSE surfData[surface],
                   bsLen |-> bsLen, valid |-> TRUE]

\* SyncOperation(syncp, 60000): the work completes (MFX_ERR_NONE), the wait of
\* 60000 ms elapses first (the API's status for an operation still in
\* execution, MFX_WRN_IN_EXECUTION, which is positive), or the device fails
\* (a negative status)
SyncOutcomes == {MFX_ERR_NONE, MFX_WRN_IN_EXECUTION, MFX_ERR_DEVICE_FAILED}

\* The task a handle stands for
TaskOf(h) == CHOOSE t \in devTasks : t.h = h

\* The device's side of one SyncOperation call answered with status s: on
\* completion the task's surface is released and its unit lies in mfxBS
DeviceSync(h, s) ==
    IF s = MFX_ERR_NONE /\ \E t \in devTasks : t.h = h
    THEN [tasks |-> devTasks \ {TaskOf(h)},
          locked |-> locked \ {TaskOf(h).job.surface},
          bsFrame |-> TaskOf(h).job.frame,
          bsLen |-> 1]
    ELSE [tasks |-> devTasks, locked |-> locked, bsFrame |-> bsFrame,
          bsLen |-> bsLen]

\* ------------------------------------------------- main(): conditions
\* Stage1Cond without the MFX_ERR_MORE_DATA clause: a frame the device holds
\* back ends the feeding loop
Stage1Cond_NoMoreData(s) == MFX_ERR_NONE <= s

\* Stage1Cond with the second comparison turned round
Stage1Cond_Reversed(s) == MFX_ERR_NONE <= s \/ MFX_ERR_MORE_DATA >= s

\* while (MFX_ERR_NONE <= sts || MFX_ERR_MORE_DATA == sts)
Stage1Cond(s) == MFX_ERR_NONE <= s \/ MFX_ERR_MORE_DATA = s

\* Stage2Cond with a strict comparison: the drain loop is not entered
Stage2Cond_Strict(s) == MFX_ERR_NONE < s

\* Stage2Cond that never ends the drain loop
Stage2Cond_Forever(s) == TRUE

\* while (MFX_ERR_NONE <= sts)
Stage2Cond(s) == MFX_ERR_NONE <= s

\* Stage1Retry without "sts = MFX_ERR_NONE" in the warning-with-handle branch
Stage1Retry_KeepWarning(s, sp) ==
    IF MFX_ERR_NONE < s /\ sp = NULL THEN [again |-> TRUE, sts |-> s]
    ELSE [again |-> FALSE, sts |-> s]

\* Stage1Retry repeating the call on every warning, handle or not
Stage1Retry_WarningRepeats(s, sp) ==
    IF MFX_ERR_NONE < s THEN [again |-> TRUE, sts |-> s]
    ELSE [again |-> FALSE, sts |-> s]

\* Stage1Retry leaving the loop on a warning without a handle
Stage1Retry_BusyBreaks(s, sp) ==
    IF MFX_ERR_NONE < s /\ sp # NULL
    THEN [again |-> FALSE, sts |-> MFX_ERR_NONE]
    ELSE [again |-> FALSE, sts |-> s]

\* The body of Stage 1's for (;;) after EncodeFrameAsync returned s and sp:
\* repeat the call, or leave the loop with the status given
Stage1Retry(s, sp) ==
    IF MFX_ERR_NONE < s /\ sp = NULL THEN [again |-> TRUE, sts |-> s]
    ELSE IF MFX_ERR_NONE < s /\ sp # NULL
         THEN [again |-> FALSE, sts |-> MFX_ERR_NONE]
    ELSE IF MFX_ERR_NOT_ENOUGH_BUFFER = s THEN [again |-> FALSE, sts |-> s]
    ELSE [again |-> FALSE, sts |-> s]

\* Stage2Retry without "sts = MFX_ERR_NONE" in the warning-with-handle branch
Stage2Retry_KeepWarning(s, sp) ==
    IF MFX_ERR_NONE < s /\ sp = NULL THEN [again |-> TRUE, sts |-> s]
    ELSE [again |-> FALSE, sts |-> s]

\* The body of Stage 2's for (;;)
Stage2Retry(s, sp) ==
    IF MFX_ERR_NONE < s /\ sp = NULL THEN [again |-> TRUE, sts |-> s]
    ELSE IF MFX_ERR_NONE < s /\ sp # NULL
         THEN [again |-> FALSE, sts |-> MFX_ERR_NONE]
    ELSE [again |-> FALSE, sts |-> s]

\* if (MFX_ERR_NONE == sts) before SyncOperation, Stage 1 and Stage 2
Stage1SyncCond(s) == MFX_ERR_NONE = s
Stage2SyncCond(s) == MFX_ERR_NONE = s

\* A status of EncodeFrameAsync that is fatal: negative, and neither "more
\* data needed" nor "not enough buffer"
IsFatal(s) == s < MFX_ERR_NONE /\ s \notin {MFX_ERR_MORE_DATA, MFX_ERR_NOT_ENOUGH_BUFFER}

\* ---------------------------------------------- observations, updated
\* a device call (EncodeFrameAsync or SyncOperation) is being made
MarkCall(h) ==
    [h EXCEPT !.callAfterTerm = @ \/ h.termSeen,
              !.callAfterFatal = @ \/ (h.fatal # MFX_ERR_NONE),
              !.callAfterTimeout = @ \/ h.timedOut]

\* EncodeFrameAsync(surface) was answered with a; the retry loop decided d
MarkEncode(h, surface, a, d) ==
    [MarkCall(h) EXCEPT
        !.final = IF d.again THEN @ ELSE d.sts,
        !.nullIssued = @ \/ surface = NULL,
        !.realAfterNull = @ \/ (surface # NULL /\ h.nullIssued),
        !.termSeen = @ \/ (surface = NULL /\ a.sts = MFX_ERR_MORE_DATA),
        !.drainSubmits = IF surface = NULL /\ a.kind = "emit" THEN @ + 1 ELSE @,
        !.fatal = IF @ = MFX_ERR_NONE /\ IsFatal(a.sts) THEN a.sts ELSE @,
        !.shortSeen = @ \/ a.sts = MFX_ERR_NOT_ENOUGH_BUFFER,
        !.busyRetried = @ \/ (resp.valid /\ resp.sts = MFX_WRN_DEVICE_BUSY
                                /\ resp.syncp = NULL),
        !.lastWarn = (a.sts > MFX_ERR_NONE /\ a.kind = "emit"),
        !.bufferedSeen = @ \/ (surface # NULL /\ a.sts = MFX_ERR_MORE_DATA),
        !.otherNegative = @ \/ (a.sts < MFX_ERR_NONE /\ a.sts # MFX_ERR_MORE_DATA),
        !.accepted = IF surface # NULL /\ a.kind \in {"buffer", "emit"} THEN @ + 1 ELSE @]

\* SyncOperation(sp) was answered with s; counted says nFrame was incremented
MarkSync(h, sp, s, drain, counted) ==
    [MarkCall(h) EXCEPT
        !.syncCnt = IF sp \in DOMAIN @ THEN [@ EXCEPT ![sp] = @ + 1] ELSE @,
        !.badSync = @ \/ h.final # MFX_ERR_NONE \/ sp = NULL,
        !.drainSyncs = IF drain THEN @ + 1 ELSE @,
        !.timedOut = @ \/ s = MFX_WRN_IN_EXECUTION,
        !.curTimedOut = (s = MFX_WRN_IN_EXECUTION),
        !.timeoutCounted = @ \/ (s = MFX_WRN_IN_EXECUTION /\ counted),
        !.nSyncs = @ + 1,
        !.orderBroken = @ \/ sp # h.nSyncs + 1,
        !.warnCounted = @ \/ (h.lastWarn /\ counted),
        !.otherNegative = @ \/ s < MFX_ERR_NONE,
        !.okSyncs = IF s = MFX_ERR_NONE THEN @ + 1 ELSE @]

\* WriteBitStreamFrame returned w
MarkWrite(h, w) ==
    [h EXCEPT !.timeoutWritten = @ \/ (h.curTimedOut /\ w = MFX_ERR_NONE),
              !.otherNegative = @ \/ w < MFX_ERR_NONE]

\* --------------------------------------------------- main(): Stage 1
EncInit ==
    /\ pc = "s1_loop"
    /\ sts = MFX_ERR_NONE
    /\ ret = MFX_ERR_NONE
    /\ nEncSurfIdx = 1
    /\ syncp = NULL
    /\ nFrame = 0
    /\ bEnableOutput \in BOOLEAN
    /\ bsLen = 0
    /\ bsMax = 1
    /\ bsFrame = 0
    /\ surfData = [i \in Surfaces |-> 0]
    /\ locked = {}
    /\ inputLen \in 0 .. MaxFrames
    /\ inputPos = 0
    /\ sink = <<>>
    /\ devQueue = <<>>
    /\ devTasks = {}
    /\ nHandles = 0
    /\ resp = NoResp
    /\ arg = NoArg
    /\ hist = HistInit

\* the variables of the device and of the input, output and observations
appOnly == <<devQueue, devTasks, nHandles, locked, bsLen, bsMax, bsFrame,
             surfData, inputLen, inputPos, sink, bEnableOutput>>

\* while (MFX_ERR_NONE <= sts || MFX_ERR_MORE_DATA == sts)
S1_Loop ==
    /\ pc = "s1_loop"
    /\ pc' = IF Stage1Cond(sts) THEN "s1_find" ELSE "s1_exit"
    /\ resp' = NoResp
    /\ UNCHANGED <<sts, ret, nEncSurfIdx, syncp, nFrame, arg, hist, appOnly, otherVars>>

\* S1_FindSurface without the search: the index of the pass before is kept
S1_FindSurface_Stale ==
    /\ pc = "s1_find"
    /\ pc' = "s1_load"
    /\ resp' = NoResp
    /\ UNCHANGED <<sts, ret, nEncSurfIdx, syncp, nFrame, arg, hist, appOnly, otherVars>>

\* nEncSurfIdx = GetFreeSurfaceIndex(pEncSurfaces);
\* MSDK_CHECK_ERROR(MFX_ERR_NOT_FOUND, nEncSurfIdx, MFX_ERR_MEMORY_ALLOC);
S1_FindSurface ==
    /\ pc = "s1_find"
    /\ nEncSurfIdx' = GetFreeSurfaceIndex(locked)
    /\ IF nEncSurfIdx' = MFX_ERR_NOT_FOUND
       THEN /\ pc' = "done" /\ ret' = MFX_ERR_MEMORY_ALLOC
            /\ hist' = [hist EXCEPT !.otherNegative = TRUE]
       ELSE /\ pc' = "s1_load" /\ ret' = ret
            /\ hist' = hist
    /\ resp' = NoResp
    /\ UNCHANGED <<sts, syncp, nFrame, arg, appOnly, otherVars>>

\* sts = LoadRaw10BitFrame(&pEncSurfaces[nEncSurfIdx], fSource.get());
\* MSDK_BREAK_ON_ERROR(sts);
S1_LoadFrame ==
    /\ pc = "s1_load"
    /\ sts' = LoadRaw10BitFrame(inputPos, inputLen)
    /\ IF MSDK_BREAK_ON_ERROR(sts')
       THEN /\ pc' = "s1_exit"
            /\ hist' = [hist EXCEPT !.inputExhausted = TRUE,
                                    !.kAtExhaust = Len(devQueue)]
            /\ UNCHANGED <<surfData, inputPos>>
       ELSE /\ pc' = "s1_encode"
            /\ surfData' = [surfData EXCEPT ![nEncSurfIdx] = inputPos + 1]
            /\ inputPos' = inputPos + 1
            /\ hist' = hist
    /\ resp' = NoResp
    /\ UNCHANGED <<ret, nEncSurfIdx, syncp, nFrame, arg, devQueue, devTasks,
                   nHandles, locked, bsLen, bsMax, bsFrame, inputLen, sink,
                   bEnableOutput, otherVars>>

\* one pass of for (;;): EncodeFrameAsync(NULL, &pEncSurfaces[nEncSurfIdx],
\* &mfxBS, &syncp) and the branches on its status
S1_Encode ==
    /\ pc = "s1_encode"
    /\ \E a \in DeviceAnswers(nEncSurfIdx, devQueue) :
          /\ DeviceEncode(nEncSurfIdx, a)
          /\ LET d == Stage1Retry(a.sts, resp'.syncp)
             IN  /\ sts' = d.sts
                 /\ syncp' = resp'.syncp
                 /\ pc' = IF d.again THEN "s1_encode" ELSE "s1_sync"
                 /\ hist' = MarkEncode(hist, nEncSurfIdx, a, d)
    /\ UNCHANGED <<ret, nEncSurfIdx, nFrame, bsLen, bsMax, bsFrame, surfData,
                   inputLen, inputPos, sink, bEnableOutput, otherVars>>

\* if (MFX_ERR_NONE == sts) { sts = session.SyncOperation(syncp, 60000);
\* MSDK_CHECK_RESULT(sts, MFX_ERR_NONE, sts); ++nFrame;
\* if (bEnableOutput) ... else mfxBS.DataLength = 0; }
S1_Sync ==
    /\ pc = "s1_sync"
    /\ IF ~Stage1SyncCond(sts)
       THEN /\ pc' = "s1_loop"
            /\ UNCHANGED <<sts, ret, nFrame, devTasks, locked, bsFrame, bsLen, hist>>
       ELSE \E s \in SyncOutcomes :
            LET dev == DeviceSync(syncp, s)
                returns == MSDK_CHECK_RESULT(s, MFX_ERR_NONE)
            IN  /\ sts' = s
                /\ devTasks' = dev.tasks
                /\ locked' = dev.locked
                /\ bsFrame' = dev.bsFrame
                /\ hist' = MarkSync(hist, syncp, s, FALSE, ~returns)
                /\ IF returns
                   THEN /\ pc' = "done" /\ ret' = s
                        /\ nFrame' = nFrame /\ bsLen' = dev.bsLen
                   ELSE /\ nFrame' = nFrame + 1
                        /\ ret' = ret
                        /\ pc' = IF bEnableOutput THEN "s1_write" ELSE "s1_loop"
                        /\ bsLen' = IF bEnableOutput THEN dev.bsLen ELSE 0
    /\ resp' = NoResp
    /\ UNCHANGED <<nEncSurfIdx, syncp, arg, devQueue, nHandles, bsMax, surfData,
                   inputLen, inputPos, sink, bEnableOutput, otherVars>>

\* sts = WriteBitStreamFrame(&mfxBS, fSink.get()); MSDK_BREAK_ON_ERROR(sts);
S1_Write ==
    /\ pc = "s1_write"
    /\ \E w \in WriteOutcomes :
          /\ sts' = w
          /\ hist' = MarkWrite(hist, w)
          /\ IF MSDK_BREAK_ON_ERROR(w)
             THEN pc' = "s1_exit" /\ UNCHANGED <<sink, bsLen>>
             ELSE pc' = "s1_loop" /\ sink' = WriteBitStreamFrame(sink) /\ bsLen' = 0
    /\ resp' = NoResp
    /\ UNCHANGED <<ret, nEncSurfIdx, syncp, nFrame, arg, devQueue, devTasks,
                   nHandles, locked, bsMax, bsFrame, surfData, inputLen,
                   inputPos, bEnableOutput, otherVars>>

\* MSDK_IGNORE_MFX_STS(sts, MFX_ERR_MORE_DATA);
\* MSDK_CHECK_RESULT(sts, MFX_ERR_NONE, sts);
S1_Exit ==
    /\ pc = "s1_exit"
    /\ sts' = MSDK_IGNORE_MFX_STS(sts, MFX_ERR_MORE_DATA)
    /\ IF MSDK_CHECK_RESULT(sts', MFX_ERR_NONE)
       THEN pc' = "done" /\ ret' = sts'
       ELSE pc' = "s2_loop" /\ ret' = ret
    /\ resp' = NoResp
    /\ UNCHANGED <<nEncSurfIdx, syncp, nFrame, arg, hist, appOnly, otherVars>>

\* --------------------------------------------------- main(): Stage 2
\* while (MFX_ERR_NONE <= sts)
S2_Loop ==
    /\ pc = "s2_loop"
    /\ pc' = IF Stage2Cond(sts) THEN "s2_encode" ELSE "s2_exit"
    /\ resp' = NoResp
    /\ UNCHANGED <<sts, ret, nEncSurfIdx, syncp, nFrame, arg, hist, appOnly, otherVars>>

\* one pass of for (;;): EncodeFrameAsync(NULL, NULL, &mfxBS, &syncp) and the
\* branches on its status
S2_Encode ==
    /\ pc = "s2_encode"
    /\ \E a \in DeviceAnswers(NULL, devQueue) :
          /\ DeviceEncode(NULL, a)
          /\ LET d == Stage2Retry(a.sts, resp'.syncp)
             IN  /\ sts' = d.sts
                 /\ syncp' = resp'.syncp
                 /\ pc' = IF d.again THEN "s2_encode" ELSE "s2_sync"
                 /\ hist' = MarkEncode(hist, NULL, a, d)
    /\ UNCHANGED <<ret, nEncSurfIdx, nFrame, bsLen, bsMax, bsFrame, surfData,
                   inputLen, inputPos, sink, bEnableOutput, otherVars>>

\* if (MFX_ERR_NONE == sts) { sts = session.SyncOperation(syncp, 60000);
\* MSDK_CHECK_RESULT(sts, MFX_ERR_NONE, sts); ++nFrame;
\* if (bEnableOutput) ... else mfxBS.DataLength = 0; }
S2_Sync ==
    /\ pc = "s2_sync"
    /\ IF ~Stage2SyncCond(sts)
       THEN /\ pc' = "s2_loop"
            /\ UNCHANGED <<sts, ret, nFrame, devTasks, locked, bsFrame, bsLen, hist>>
       ELSE \E s \in SyncOutcomes :
            LET dev == DeviceSync(syncp, s)
                returns == MSDK_CHECK_RESULT(s, MFX_ERR_NONE)
            IN  /\ sts' = s
                /\ devTasks' = dev.tasks
                /\ locked' = dev.locked
                /\ bsFrame' = dev.bsFrame
                /\ hist' = MarkSync(hist, syncp, s, TRUE, ~returns)
                /\ IF returns
                   THEN /\ pc' = "done" /\ ret' = s
                        /\ nFrame' = nFrame /\ bsLen' = dev.bsLen
                   ELSE /\ nFrame' = nFrame + 1
                        /\ ret' = ret
                        /\ pc' = IF bEnableOutput THEN "s2_write" ELSE "s2_loop"
                        /\ bsLen' = IF bEnableOutput THEN dev.bsLen ELSE 0
    /\ resp' = NoResp
    /\ UNCHANGED <<nEncSurfIdx, syncp, arg, devQueue, nHandles, bsMax, surfData,
                   inputLen, inputPos, sink, bEnableOutput, otherVars>>

\* sts = WriteBitStreamFrame(&mfxBS, fSink.get()); MSDK_BREAK_ON_ERROR(sts);
S2_Write ==
    /\ pc = "s2_write"
    /\ \E w \in WriteOutcomes :
          /\ sts' = w
          /\ hist' = MarkWrite(hist, w)
          /\ IF MSDK_BREAK_ON_ERROR(w)
             THEN pc' = "s2_exit" /\ UNCHANGED <<sink, bsLen>>
             ELSE pc' = "s2_loop" /\ sink' = WriteBitStreamFrame(sink) /\ bsLen' = 0
    /\ resp' = NoResp
    /\ UNCHANGED <<ret, nEncSurfIdx, syncp, nFrame, arg, devQueue, devTasks,
                   nHandles, locked, bsMax, bsFrame, surfData, inputLen,
                   inputPos, bEnableOutput, otherVars>>

\* S2_Exit without MSDK_IGNORE_MFX_STS
S2_Exit_NoIgnore ==
    /\ pc = "s2_exit"
    /\ pc' = "done"
    /\ ret' = IF MSDK_CHECK_RESULT(sts, MFX_ERR_NONE) THEN sts ELSE 0
    /\ resp' = NoResp
    /\ UNCHANGED <<sts, nEncSurfIdx, syncp, nFrame, arg, hist, appOnly, otherVars>>

\* MSDK_IGNORE_MFX_STS(sts, MFX_ERR_MORE_DATA);
\* MSDK_CHECK_RESULT(sts, MFX_ERR_NONE, sts); ... return 0;
S2_Exit ==
    /\ pc = "s2_exit"
    /\ sts' = MSDK_IGNORE_MFX_STS(sts, MFX_ERR_MORE_DATA)
    /\ pc' = "done"
    /\ ret' = IF MSDK_CHECK_RESULT(sts', MFX_ERR_NONE) THEN sts' ELSE 0
    /\ resp' = NoResp
    /\ UNCHANGED <<nEncSurfIdx, syncp, nFrame, arg, hist, appOnly, otherVars>>

EncNext ==
    \/ S1_Loop
    \/ S1_FindSurface
    \/ S1_LoadFrame
    \/ S1_Encode
    \/ S1_Sync
    \/ S1_Write
    \/ S1_Exit
    \/ S2_Loop
    \/ S2_Encode
    \/ S2_Sync
    \/ S2_Write
    \/ S2_Exit

\* ------------------------------------------- Gen12 GetMaxNumRef layer
MFX_CODINGOPTION_UNKNOWN == 0
MFX_CODINGOPTION_ON == 16
MFX_CODINGOPTION_OFF == 32
\* the default CheckRangeOrSetDefault<mfxU16>(tu, 1, 7, 4) substitutes
DefaultTU == 4
MinTU == 1
TopTU == 7
\* mfxU16
U16 == 65536

\* IsOn(opt): the tri-state option is MFX_CODINGOPTION_ON
IsOn(opt) == opt = MFX_CODINGOPTION_ON

\* CheckRangeOrSetDefault<mfxU16>(opt, min, max, dflt): opt, or dflt when opt
\* lies outside [min, max]
CheckRangeOrSetDefault(opt, min, max, dflt) ==
    IF opt < min \/ opt > max THEN dflt ELSE opt

\* bool used as an integer
B2I(b) == IF b THEN 1 ELSE 0

\* std::min<mfxU16>
MinU16(a, b) == IF (a % U16) < (b % U16) THEN a % U16 ELSE b % U16

\* const mfxU16 nRef[3][2][7] (1-based here)
nRef ==
    << << <<4, 4, 3, 3, 3, 1, 1>>,      \* VME
          <<2, 2, 1, 1, 1, 1, 1>> >>,
       << <<3, 3, 2, 2, 2, 1, 1>>,      \* VDENC P
          <<3, 3, 2, 2, 2, 1, 1>> >>,
       << <<2, 2, 1, 1, 1, 1, 1>>,      \* Gen12 VDENC RA B
          <<1, 1, 1, 1, 1, 1, 1>> >> >>

\* RefIdx taking a GopRefDist of 1 for B frames
RefIdx_BFramesFromOne(dpar) ==
    LET bBFrames == dpar.GopRefDist >= 1
        bVDEnc == IsOn(dpar.LowPower)
    IN  B2I(bVDEnc) * (1 + B2I(bBFrames))

\* mfxU32 idx = bVDEnc * (1 + bBFrames)
RefIdx(dpar) ==
    LET bBFrames == dpar.GopRefDist > 1
        bVDEnc == IsOn(dpar.LowPower)
    IN  B2I(bVDEnc) * (1 + B2I(bBFrames))

\* RefTU without the range check
RefTU_NoDefault(dpar) == (dpar.TargetUsage - 1) % U16

\* tu after CheckRangeOrSetDefault<mfxU16>(tu, 1, 7, 4); --tu;
RefTU(dpar) ==
    (CheckRangeOrSetDefault(dpar.TargetUsage, MinTU, TopTU, DefaultTU) - 1) % U16

\* the table entry read for direction dir (0 or 1); an index outside the
\* table reads no entry
RefEntry(dpar, dir) ==
    LET idx == RefIdx(dpar)
        tu == RefTU(dpar)
    IN  IF idx + 1 \in DOMAIN nRef /\ tu + 1 \in DOMAIN nRef[idx + 1][dir + 1]
        THEN nRef[idx + 1][dir + 1][tu + 1]
        ELSE -1

\* GetMaxNumRef without the clamp to the hardware maxima
GetMaxNumRef_NoClamp(dpar) == << RefEntry(dpar, 0), RefEntry(dpar, 1) >>

\* the layer pushed on defaults.GetMaxNumRef: the tuple it returns
GetMaxNumRef(dpar) ==
    << MinU16(RefEntry(dpar, 0), dpar.MaxNum_Reference0),
       MinU16(RefEntry(dpar, 1), dpar.MaxNum_Reference1) >>

\* the parameters the layer is tried on
RefParams ==
    [ LowPower : {MFX_CODINGOPTION_UNKNOWN, MFX_CODINGOPTION_ON, MFX_CODINGOPTION_OFF},
      GopRefDist : 0 .. MaxGop,
      TargetUsage : 0 .. MaxTU,
      MaxNum_Reference0 : 0 .. MaxCapRef,
      MaxNum_Reference1 : 0 .. MaxCapRef ]

NoTuple == <<>>

RefInit ==
    /\ rpar \in RefParams
    /\ rres = NoTuple
    /\ rprev = NoTuple
    /\ rpc = "ready"

\* the chain is asked for the reference counts of rpar
RefCall ==
    /\ rpc = "ready"
    /\ rres' = GetMaxNumRef(rpar)
    /\ rpc' = "called"
    /\ UNCHANGED <<rpar, rprev, encVars, chainVars, capsVars>>

\* rpar with a TargetUsage outside 1..7 replaced by 4
WithBalancedTU(dpar) ==
    [dpar EXCEPT !.TargetUsage = IF @ \in 1 .. 7 THEN @ ELSE 4]

\* the chain is asked again, with TargetUsage 4 in place of a value outside
\* 1..7; rprev keeps the first answer
RefCallAgain ==
    /\ rpc = "called"
    /\ rprev' = rres
    /\ rres' = GetMaxNumRef(WithBalancedTU(rpar))
    /\ rpc' = "again"
    /\ UNCHANGED <<rpar, encVars, chainVars, capsVars>>

RefNext ==
    \/ RefCall
    \/ RefCallAgain

\* ------------------------------ Caps::Query1NoCaps, the defaults chain
Features == 1 .. NumFeatures

\* the layer the chain holds before any Gen12 feature pushes on it
BaseLayer == 0

\* what the base layer may return
BaseResults == {<<a, b>> : a \in {0, MaxCapRef}, b \in {0, MaxCapRef}}

\* occurrences of layer id in the chain ch
LayersOf(ch, id) == Cardinality({i \in DOMAIN ch : ch[i] = id})

\* invocations of the callback so far, over the features 1 .. n
RECURSIVE CallsUpTo(_, _)
CallsUpTo(f, n) == IF n = 0 THEN 0 ELSE f[n] + CallsUpTo(f, n - 1)

\* the parameters the chain is called with: every option value, distance and
\* target usage, with hardware maxima under and over the table's entries
ChainParams ==
    { dpar \in RefParams :
        /\ dpar.MaxNum_Reference0 \in {1, MaxCapRef}
        /\ dpar.MaxNum_Reference1 \in {1, MaxCapRef} }

\* the pushed lambda handing back what the layer under it gives
Gen12Layer_UsesPrev(prev, dpar) == prev

\* the lambda pushed on defaults.GetMaxNumRef: its first argument, the layer
\* under it, has no name and is not used
Gen12Layer(prev, dpar) == GetMaxNumRef(dpar)

\* TChain: the layer pushed last runs, with the layers under it as prev; base
\* is what the base layer returns
RECURSIVE ChainEval(_, _, _, _)
ChainEval(ch, n, dpar, base) ==
    IF ch[n] = BaseLayer
    THEN base
    ELSE Gen12Layer(IF n > 1 THEN ChainEval(ch, n - 1, dpar, base) ELSE NoTuple, dpar)

\* BLK_SetDefaultsCallChain without bSet = true
SetDefaultsCallChain_NoFlag ==
    \E id \in Features :
        /\ rpc = "ready"
        /\ CallsUpTo(nCalls, NumFeatures) < MaxQueries
        /\ nCalls' = [nCalls EXCEPT ![id] = @ + 1]
        /\ IF SetForFeature[id]
           THEN UNCHANGED chain
           ELSE chain' = Append(chain, id)
        /\ qsts' = qsts \cup {MFX_ERR_NONE}
        /\ UNCHANGED <<SetForFeature, refVars, encVars, capsVars>>

\* the BLK_SetDefaultsCallChain callback of the feature with identity id:
\* MFX_CHECK(!bSet, MFX_ERR_NONE); defaults.GetMaxNumRef.Push(...); bSet = true
SetDefaultsCallChain ==
    \E id \in Features :
        /\ rpc = "ready"
        /\ CallsUpTo(nCalls, NumFeatures) < MaxQueries
        /\ nCalls' = [nCalls EXCEPT ![id] = @ + 1]
        /\ IF SetForFeature[id]
           THEN UNCHANGED <<chain, SetForFeature>>
           ELSE /\ chain' = Append(chain, id)
                /\ SetForFeature' = [SetForFeature EXCEPT ![id] = TRUE]
        /\ qsts' = qsts \cup {MFX_ERR_NONE}
        /\ UNCHANGED <<refVars, encVars, capsVars>>

\* defaults.GetMaxNumRef is called with some parameters
ChainCall ==
    \E dpar \in ChainParams, base \in BaseResults :
        /\ rpc = "ready"
        /\ rpar' = dpar
        /\ rres' = ChainEval(chain, Len(chain), dpar, base)
        /\ rpc' = "called"
        /\ UNCHANGED <<rprev, chainVars, encVars, capsVars>>

ChainInit ==
    /\ SetForFeature = [id \in Features |-> FALSE]
    /\ chain = <<BaseLayer>>
    /\ nCalls = [id \in Features |-> 0]
    /\ qsts = {}

ChainNext ==
    \/ SetDefaultsCallChain
    \/ ChainCall

\* ---------------------------- Caps::Query1WithCaps, BLK_HardcodeCaps
\* IsOff(opt): the tri-state option is MFX_CODINGOPTION_OFF
IsOff(opt) == opt = MFX_CODINGOPTION_OFF

\* the fields of the capability descriptor the block touches or reads
CapsStates ==
    [ SliceIPOnly : BOOLEAN,
      bSingleSliceMultiTile : BOOLEAN,
      YUV422ReconSupport : BOOLEAN,
      Color420Only : BOOLEAN ]

\* the fields of par.mfx the block reads
CapsParams ==
    [ LowPower : {MFX_CODINGOPTION_UNKNOWN, MFX_CODINGOPTION_ON, MFX_CODINGOPTION_OFF},
      TargetUsage : 0 .. MaxTU ]

\* the writes with TargetUsage compared to the lowest level
HardcodeWrites_SlowestTU(c, par) ==
    [c EXCEPT
        !.SliceIPOnly = IsOn(par.LowPower) /\ (par.TargetUsage = 1),
        !.bSingleSliceMultiTile = FALSE,
        !.YUV422ReconSupport = @ \/ (~c.Color420Only /\ IsOff(par.LowPower))]

\* the writes with YUV422ReconSupport assigned, not or-ed
HardcodeWrites_AssignYUV(c, par) ==
    [c EXCEPT
        !.SliceIPOnly = IsOn(par.LowPower) /\ (par.TargetUsage = 7),
        !.bSingleSliceMultiTile = FALSE,
        !.YUV422ReconSupport = ~c.Color420Only /\ IsOff(par.LowPower)]

\* the writes of the block before the hook
HardcodeWrites(c, par) ==
    [c EXCEPT
        !.SliceIPOnly = IsOn(par.LowPower) /\ (par.TargetUsage = 7),
        !.bSingleSliceMultiTile = FALSE,
        !.YUV422ReconSupport = @ \/ (~c.Color420Only /\ IsOff(par.LowPower))]

\* SetSpecificCaps(caps): the descriptors the override of a platform may
\* leave behind
SetSpecificCaps(c) == CapsStates

\* the BLK_HardcodeCaps callback: the three writes, the hook, return MFX_ERR_NONE
HardcodeCaps ==
    \E par \in CapsParams :
        /\ nHardcode < MaxQueries
        /\ nHardcode' = nHardcode + 1
        /\ cpar' = par
        /\ capsBefore' = caps
        /\ capsBase' = HardcodeWrites(caps, par)
        /\ caps' \in SetSpecificCaps(capsBase')
        /\ nBody' = nBody + 1
        /\ hsts' = hsts \cup {MFX_ERR_NONE}
        /\ UNCHANGED <<refVars, encVars, chainVars>>

NoCapsParam == [LowPower |-> MFX_CODINGOPTION_UNKNOWN, TargetUsage |-> 0]

CapsInit ==
    /\ caps \in CapsStates
    /\ capsBefore = caps
    /\ capsBase = caps
    /\ cpar = NoCapsParam
    /\ nHardcode = 0
    /\ nBody = 0
    /\ hsts = {}

CapsNext == HardcodeCaps

\* ------------------------------------------------------ specifications
\* the part that is not running
RefParked ==
    /\ rpar = [LowPower |-> MFX_CODINGOPTION_UNKNOWN, GopRefDist |-> 0,
               TargetUsage |-> 0, MaxNum_Reference0 |-> 0, MaxNum_Reference1 |-> 0]
    /\ rres = NoTuple
    /\ rprev = NoTuple
    /\ rpc = "off"

EncParked ==
    /\ pc = "off"
    /\ sts = MFX_ERR_NONE
    /\ ret = MFX_ERR_NONE
    /\ nEncSurfIdx = 1
    /\ syncp = NULL
    /\ nFrame = 0
    /\ bEnableOutput = FALSE
    /\ bsLen = 0
    /\ bsMax = 1
    /\ bsFrame = 0
    /\ surfData = [i \in Surfaces |-> 0]
    /\ locked = {}
    /\ inputLen = 0
    /\ inputPos = 0
    /\ sink = <<>>
    /\ devQueue = <<>>
    /\ devTasks = {}
    /\ nHandles = 0
    /\ resp = NoResp
    /\ arg = NoArg
    /\ hist = HistInit

ChainParked ==
    /\ SetForFeature = [id \in Features |-> FALSE]
    /\ chain = <<BaseLayer>>
    /\ nCalls = [id \in Features |-> 0]
    /\ qsts = {}

CapsParked ==
    /\ caps = [SliceIPOnly |-> FALSE, bSingleSliceMultiTile |-> FALSE,
               YUV422ReconSupport |-> FALSE, Color420Only |-> FALSE]
    /\ capsBefore = caps
    /\ capsBase = caps
    /\ cpar = NoCapsParam
    /\ nHardcode = 0
    /\ nBody = 0
    /\ hsts = {}

RefReady ==
    /\ rpar = [LowPower |-> MFX_CODINGOPTION_UNKNOWN, GopRefDist |-> 0,
               TargetUsage |-> 0, MaxNum_Reference0 |-> 0, MaxNum_Reference1 |-> 0]
    /\ rres = NoTuple
    /\ rprev = NoTuple
    /\ rpc = "ready"

Init == EncInit /\ RefParked /\ ChainParked /\ CapsParked
Next == EncNext
Spec == Init /\ [][Next]_vars

\* the session under a device that does not answer one submission with a
\* warning and no handle for ever, and a program that keeps running
EncoderLeavesRetry ==
    /\ SF_vars(S1_Encode /\ pc' # "s1_encode")
    /\ SF_vars(S2_Encode /\ pc' # "s2_encode")
SpecLive == Init /\ [][Next]_vars /\ WF_vars(Next) /\ EncoderLeavesRetry

InitRef == RefInit /\ EncParked /\ ChainParked /\ CapsParked
SpecRef == InitRef /\ [][RefNext]_vars

InitChain == ChainInit /\ RefReady /\ EncParked /\ CapsParked
SpecChain == InitChain /\ [][ChainNext]_vars

InitCaps == CapsInit /\ RefParked /\ EncParked /\ ChainParked
SpecCaps == InitCaps /\ [][CapsNext]_vars

\* ------------------------------------------------------------ properties
EncodePcs == {"s1_encode", "s2_encode"}
SyncPcs == {"s1_sync", "s2_sync"}
Handles == 1 .. nHandles

\* C1: every handle EncodeFrameAsync produced (its submission ended with
\* MFX_ERR_NONE) is passed to SyncOperation exactly once, and that call is
\* over before the next EncodeFrameAsync, surface search or frame load;
\* SyncOperation is never called for a submission that did not end with
\* MFX_ERR_NONE, and no handle is synchronized twice.
C1_EachHandleSyncedOnce ==
    /\ \A h \in DOMAIN hist.syncCnt : hist.syncCnt[h] <= 1
    /\ \A h \in DOMAIN hist.syncCnt : h \notin Handles => hist.syncCnt[h] = 0
    /\ ~hist.badSync
    /\ pc \notin SyncPcs => \A h \in Handles : hist.syncCnt[h] = 1
    /\ pc \in SyncPcs => \A h \in Handles : h # syncp => hist.syncCnt[h] = 1

\* C1 witness: both loops produced a handle and each was synchronized once
C1_Witness ==
    /\ pc = "s2_loop"
    /\ nHandles = 2
    /\ hist.drainSubmits = 1
    /\ hist.syncCnt[1] = 1 /\ hist.syncCnt[2] = 1

\* the device owns a surface while a frame it accepted from it is held back
\* or stands behind an unresolved handle
DeviceOwned ==
    {devQueue[i].surface : i \in DOMAIN devQueue} \cup {t.job.surface : t \in devTasks}

\* C2: the surface the feeding loop loads a new frame into and submits is never
\* one the device still owns.
C2_NoReuseWhileOwned ==
    pc \in {"s1_load", "s1_encode"} =>
        /\ nEncSurfIdx \in Surfaces
        /\ nEncSurfIdx \notin DeviceOwned

\* C2 witness: a surface used before is chosen again while the device owns
\* another one
C2_Witness ==
    /\ pc = "s1_load"
    /\ surfData[nEncSurfIdx] # 0
    /\ DeviceOwned # {}
    /\ nEncSurfIdx \notin DeviceOwned

C4_GrowAndRetry ==
    /\ (resp.valid /\ resp.sts = MFX_ERR_NOT_ENOUGH_BUFFER) =>
          (pc \in EncodePcs /\ bsMax > 1)
    /\ (pc = "done" /\ hist.shortSeen) => ret # MFX_ERR_NOT_ENOUGH_BUFFER

\* C5 (as claimed): once a SyncOperation has timed out the session has ended
\* with a failure status, the unit was neither counted nor written, and no
\* further device call was made.
C5_TimeoutIsFatal ==
    hist.timedOut =>
        /\ pc = "done"
        /\ ret < MFX_ERR_NONE
        /\ ~hist.timeoutCounted
        /\ ~hist.timeoutWritten
        /\ ~hist.callAfterTimeout

BusyNoHandle(r) == r.valid /\ r.sts = MFX_WRN_DEVICE_BUSY /\ r.syncp = NULL

\* C6: after "device busy" without a handle the session has not failed, and
\* the next step is EncodeFrameAsync with the same surface (or null) and the
\* same bitstream buffer: no frame is loaded, no surface searched and no
\* SyncOperation called in between; the retry loop is left only with a handle
\* or a negative status.
C6_BusyRepeatsSame ==
    [][ /\ BusyNoHandle(resp) =>
            /\ pc \in EncodePcs
            /\ resp'.valid
            /\ arg' = arg
            /\ nEncSurfIdx' = nEncSurfIdx
            /\ surfData' = surfData
            /\ inputPos' = inputPos
            /\ hist'.syncCnt = hist.syncCnt
            /\ nFrame' = nFrame
        /\ (pc \in EncodePcs /\ pc' \notin EncodePcs) =>
            (resp'.syncp # NULL \/ resp'.sts < MFX_ERR_NONE) ]_vars

\* C6 witness: a submission answered "busy" was repeated and then got a handle
C6_Witness ==
    /\ hist.busyRetried
    /\ resp.valid /\ resp.syncp # NULL
    /\ pc = "s1_sync"

\* the session has ended with success
Idle == pc = "done" /\ ret = MFX_ERR_NONE

\* C7: a real surface is submitted only before the input has ended and before
\* any null submission; a null submission is made only after the input source
\* returned MFX_ERR_MORE_DATA; the session ends with success only after a null
\* submission returned MFX_ERR_MORE_DATA.
C7_FeedDrainIdle ==
    /\ hist.nullIssued => hist.inputExhausted
    /\ ~hist.realAfterNull
    /\ pc = "s1_encode" => (~hist.inputExhausted /\ ~hist.nullIssued)
    /\ pc \in {"s2_sync", "s2_write"} => hist.nullIssued
    /\ Idle => hist.termSeen

\* C7 witness: frames were fed, one was drained, and the session is idle
C7_Witness ==
    /\ Idle
    /\ hist.termSeen
    /\ inputPos = 2
    /\ hist.drainSubmits = 1

\* C8: after a fatal status of EncodeFrameAsync no device call is made (no
\* SyncOperation, no further EncodeFrameAsync, no drain), no frame is loaded,
\* and main returns that status.
C8_FatalHalts ==
    hist.fatal # MFX_ERR_NONE =>
        /\ ~hist.callAfterFatal
        /\ pc \in {"s1_sync", "s1_loop", "s1_exit", "s2_sync", "s2_loop", "s2_exit", "done"}
        /\ sts = hist.fatal
        /\ pc = "done" => ret = hist.fatal
        /\ (pc \in {"s2_sync", "s2_loop", "s2_exit"}) => hist.nullIssued

\* C8 witness: a fatal status in the feeding loop ended the session before any
\* null submission
C8_Witness ==
    /\ pc = "done"
    /\ hist.fatal = MFX_ERR_DEVICE_FAILED
    /\ ret = MFX_ERR_DEVICE_FAILED
    /\ ~hist.nullIssued
    /\ nFrame = 1

\* C9: the pair returned never exceeds the hardware maxima, and a table entry
\* above a maximum gives that maximum.
C9_WithinHardwareMaxima ==
    rpc \in {"called", "again"} =>
        /\ Len(rres) = 2
        /\ rres[1] <= rpar.MaxNum_Reference0
        /\ rres[2] <= rpar.MaxNum_Reference1
        /\ RefEntry(rpar, 0) > rpar.MaxNum_Reference0 => rres[1] = rpar.MaxNum_Reference0
        /\ RefEntry(rpar, 1) > rpar.MaxNum_Reference1 => rres[2] = rpar.MaxNum_Reference1

\* C9 witness: the table entry 4 is capped to a hardware maximum of 2
C9_Witness ==
    /\ rpc = "called"
    /\ rpar.LowPower = MFX_CODINGOPTION_OFF
    /\ rpar.TargetUsage = 1
    /\ rpar.MaxNum_Reference0 = 2
    /\ rres[1] = 2

\* C10: for a TargetUsage outside 1..7 the pair returned is the pair returned
\* for TargetUsage 4, it is a pair of table entries or maxima (not an error),
\* and asking again with 4 gives the same pair.
C10_OutOfRangeTUIsBalanced ==
    (rpc \in {"called", "again"} /\ rpar.TargetUsage \notin 1 .. 7) =>
        /\ Len(rres) = 2
        /\ rres[1] \in 0 .. 4 /\ rres[2] \in 0 .. 4
        /\ rres[1] = MinU16(nRef[RefIdx(rpar) + 1][1][4], rpar.MaxNum_Reference0)
        /\ rres[2] = MinU16(nRef[RefIdx(rpar) + 1][2][4], rpar.MaxNum_Reference1)
        /\ rpc = "again" => rres = rprev

\* C10 witness: TargetUsage 9 gave the TargetUsage-4 pair, twice
C10_Witness ==
    /\ rpc = "again"
    /\ rpar.TargetUsage = 9
    /\ rpar.LowPower = MFX_CODINGOPTION_OFF
    /\ rres = <<3, 1>>
    /\ rprev = <<3, 1>>

\* the end-to-end scenario: LowPower on, GopRefDist 1, TargetUsage 4
C11_Scenario ==
    /\ rpc = "called"
    /\ rpar.LowPower = MFX_CODINGOPTION_ON
    /\ rpar.GopRefDist = 1
    /\ rpar.TargetUsage = 4

\* C11 (as claimed): in the scenario the row read is the power-efficient one
\* without B frames, the table gives (2,1) before the clamp, and with
\* MaxNum_Reference1 = 1 and MaxNum_Reference0 >= 2 the pair returned is (2,1).
C11_PreClampTwoOne ==
    C11_Scenario =>
        /\ RefIdx(rpar) = 1
        /\ <<RefEntry(rpar, 0), RefEntry(rpar, 1)>> = <<2, 1>>
        /\ (rpar.MaxNum_Reference1 = 1 /\ rpar.MaxNum_Reference0 >= 2) => rres = <<2, 1>>

\* C11 (amended): in the scenario the row read is the power-efficient one
\* without B frames, the table gives (2,2) before the clamp, and with
\* MaxNum_Reference1 = 1 and MaxNum_Reference0 >= 2 the pair returned is (2,1).
C11_PreClampTwoTwo ==
    C11_Scenario =>
        /\ RefIdx(rpar) = 1
        /\ <<RefEntry(rpar, 0), RefEntry(rpar, 1)>> = <<2, 2>>
        /\ (rpar.MaxNum_Reference1 = 1 /\ rpar.MaxNum_Reference0 >= 2) => rres = <<2, 1>>
        /\ (rpar.MaxNum_Reference1 >= 2 /\ rpar.MaxNum_Reference0 >= 2) => rres = <<2, 2>>

\* C11 witness: the scenario with hardware maxima (2, 1) returned (2, 1)
C11_Witness ==
    /\ C11_Scenario
    /\ rpar.MaxNum_Reference0 = 2
    /\ rpar.MaxNum_Reference1 = 1
    /\ rres = <<2, 1>>

\* C12: when the BLK_SetDefaultsCallChain callback of a feature is invoked any
\* number of times on one storage, the GetMaxNumRef chain gains exactly one
\* layer for it: the first invocation pushes the layer and sets
\* SetForFeature[id]; every later one leaves the chain and the flags as they
\* are; every invocation returns MFX_ERR_NONE.
C12_LayerPushedOnce ==
    [][ \A id \in Features :
          nCalls'[id] = nCalls[id] + 1 =>
              /\ qsts' = {MFX_ERR_NONE}
              /\ IF nCalls[id] = 0
                 THEN /\ ~SetForFeature[id]
                      /\ chain' = Append(chain, id)
                      /\ SetForFeature' = [SetForFeature EXCEPT ![id] = TRUE]
                 ELSE /\ SetForFeature[id]
                      /\ chain' = chain
                      /\ SetForFeature' = SetForFeature
              /\ LayersOf(chain', id) = 1 ]_vars

\* C12 witness: the callback of feature 1 ran MaxQueries times, the chain holds
\* the base layer and one layer of feature 1
C12_Witness ==
    /\ nCalls[1] = MaxQueries
    /\ SetForFeature[1]
    /\ chain = <<BaseLayer, 1>>
    /\ qsts = {MFX_ERR_NONE}

\* C13 (as claimed): the writes and the hook of BLK_HardcodeCaps are executed
\* at most once on one storage, however often the callback is invoked.
C13_BodyAtMostOnce == nBody <= 1

\* C14 (as claimed): after the writes of BLK_HardcodeCaps, whatever the
\* descriptor held before and whatever LowPower is, YUV422ReconSupport is set
\* iff Color420Only is clear and LowPower is off.
C14_Yuv422Iff ==
    nHardcode >= 1 =>
        (capsBase.YUV422ReconSupport <=>
            (~capsBefore.Color420Only /\ cpar.LowPower = MFX_CODINGOPTION_OFF))

\* C14 (amended): after the writes of BLK_HardcodeCaps, whatever the descriptor
\* held before and whatever LowPower is, YUV422ReconSupport is set iff it was
\* set before, or Color420Only is clear and LowPower is MFX_CODINGOPTION_OFF;
\* Color420Only is left as it was.
C14_Yuv422Accumulates ==
    nHardcode >= 1 =>
        /\ capsBase.YUV422ReconSupport <=>
              \/ capsBefore.YUV422ReconSupport
              \/ (~capsBefore.Color420Only /\ cpar.LowPower = MFX_CODINGOPTION_OFF)
        /\ capsBase.Color420Only = capsBefore.Color420Only

\* C14 witness: a descriptor that had YUV422ReconSupport and Color420Only set
\* keeps YUV422ReconSupport through the writes
C14_Witness ==
    /\ nHardcode >= 1
    /\ capsBefore.YUV422ReconSupport
    /\ capsBefore.Color420Only
    /\ capsBase.YUV422ReconSupport

\* C15: after the writes of BLK_HardcodeCaps, whatever the descriptor held
\* before, SliceIPOnly is set iff LowPower is MFX_CODINGOPTION_ON and
\* TargetUsage is 7, and clear for every other LowPower or TargetUsage.
C15_SliceIPOnlyIff ==
    nHardcode >= 1 =>
        (capsBase.SliceIPOnly <=>
            (cpar.LowPower = MFX_CODINGOPTION_ON /\ cpar.TargetUsage = 7))

\* C15 witness: SliceIPOnly was set before and LowPower is on, but TargetUsage
\* is outside 1..7: the writes cleared it
C15_Witness ==
    /\ nHardcode >= 1
    /\ capsBefore.SliceIPOnly
    /\ cpar.LowPower = MFX_CODINGOPTION_ON
    /\ cpar.TargetUsage > 7
    /\ ~capsBase.SliceIPOnly

\* C18: once a Gen12 feature has pushed its layer, the layer that answers a
\* GetMaxNumRef call is that one, and for every input the pair returned is
\* (min(T[idx][0][tu - 1], MaxNum_Reference0), min(T[idx][1][tu - 1],
\* MaxNum_Reference1)), where tu is TargetUsage with 4 in place of a value
\* outside 1..7 and idx is 0 when LowPower is not on, 1 when it is on and
\* GopRefDist <= 1, 2 when it is on and GopRefDist > 1; the indices lie within
\* the table, and what the layers pushed before would return has no influence.
C18_Gen12LayerAnswers ==
    (rpc = "called" /\ \E id \in Features : SetForFeature[id]) =>
        LET tu == IF rpar.TargetUsage \in 1 .. 7 THEN rpar.TargetUsage ELSE 4
            idx == IF rpar.LowPower # MFX_CODINGOPTION_ON THEN 0
                   ELSE IF rpar.GopRefDist <= 1 THEN 1 ELSE 2
            lim0 == rpar.MaxNum_Reference0
            lim1 == rpar.MaxNum_Reference1
        IN  /\ chain[Len(chain)] \in Features
            /\ RefIdx(rpar) = idx
            /\ RefTU(rpar) = tu - 1
            /\ idx + 1 \in DOMAIN nRef
            /\ tu \in DOMAIN nRef[idx + 1][1] /\ tu \in DOMAIN nRef[idx + 1][2]
            /\ rres = << IF nRef[idx + 1][1][tu] < lim0 THEN nRef[idx + 1][1][tu] ELSE lim0,
                         IF nRef[idx + 1][2][tu] < lim1 THEN nRef[idx + 1][2][tu] ELSE lim1 >>

\* C18 witness: two Gen12 layers lie over the base layer; with LowPower on,
\* GopRefDist 2 and TargetUsage 0 the call returned row 2 at target usage 4
C18_Witness ==
    /\ rpc = "called"
    /\ Len(chain) = 3
    /\ rpar.LowPower = MFX_CODINGOPTION_ON
    /\ rpar.GopRefDist = 2
    /\ rpar.TargetUsage = 0
    /\ rpar.MaxNum_Reference0 = MaxCapRef
    /\ rres = <<1, 1>>

\* EncodeFrameAsync answered r: a warning together with a handle
WarnWithHandle(r) == r.valid /\ r.sts > MFX_ERR_NONE /\ r.syncp # NULL

\* C16: when EncodeFrameAsync returns a positive status together with a
\* handle, in either loop, the retry loop ends with the status taken for
\* MFX_ERR_NONE; the next step is SyncOperation on that handle, and on its
\* non-negative return the unit is counted as after a plain success; the
\* session ends there only on a negative status of SyncOperation.
C16_WarningWithHandleIsSuccess ==
    [][ /\ WarnWithHandle(resp') =>
              /\ pc \in EncodePcs
              /\ pc' \in SyncPcs
              /\ sts' = MFX_ERR_NONE
              /\ syncp' = resp'.syncp
        /\ WarnWithHandle(resp) =>
              /\ pc \in SyncPcs
              /\ hist'.syncCnt[syncp] = hist.syncCnt[syncp] + 1
              /\ sts' >= MFX_ERR_NONE => (nFrame' = nFrame + 1 /\ pc' # "done")
              /\ pc' = "done" => (sts' < MFX_ERR_NONE /\ ret' = sts') ]_vars

\* C16 witness: a submission answered with a warning and a handle was
\* synchronized and counted, and the session reached Idle
C16_Witness ==
    /\ Idle
    /\ hist.warnCounted
    /\ ~hist.timedOut
    /\ nFrame = nHandles

\* C17 (as claimed): the handles are passed to SyncOperation in the order
\* EncodeFrameAsync produced them, and between two passes of either loop the
\* sink holds one unit for every handle synchronized, in that order (the unit
\* of handle h is frame h, the device emitting frames in the order it took
\* them).
C17_UnitsInHandleOrder ==
    /\ ~hist.orderBroken
    /\ (bEnableOutput /\ pc \in {"s1_loop", "s2_loop"}) =>
          sink = [i \in 1 .. hist.nSyncs |-> i]

\* C19: MFX_ERR_MORE_DATA is never taken for an error. From EncodeFrameAsync
\* with a real surface the feeding loop goes on to its next pass without a
\* SyncOperation; from LoadRaw10BitFrame the feeding loop ends and the drain
\* loop starts; from a null submission the drain loop ends and the session
\* ends with MFX_ERR_NONE; a session that saw no negative status other than
\* MFX_ERR_MORE_DATA ends with MFX_ERR_NONE.
C19_MoreDataNotAnError ==
    [][ /\ (pc = "s1_encode" /\ resp'.sts = MFX_ERR_MORE_DATA) =>
              (pc' = "s1_sync" /\ sts' = MFX_ERR_MORE_DATA)
        /\ (pc = "s1_sync" /\ sts = MFX_ERR_MORE_DATA) =>
              /\ pc' = "s1_loop"
              /\ hist'.nSyncs = hist.nSyncs
              /\ nFrame' = nFrame
              /\ sts' = sts
        /\ (pc = "s1_loop" /\ sts = MFX_ERR_MORE_DATA) => pc' = "s1_find"
        /\ (pc = "s1_load" /\ sts' = MFX_ERR_MORE_DATA) => pc' = "s1_exit"
        /\ (pc = "s1_exit" /\ sts = MFX_ERR_MORE_DATA) =>
              (pc' = "s2_loop" /\ sts' = MFX_ERR_NONE)
        /\ (pc = "s2_encode" /\ resp'.sts = MFX_ERR_MORE_DATA) =>
              (pc' = "s2_sync" /\ sts' = MFX_ERR_MORE_DATA)
        /\ (pc = "s2_sync" /\ sts = MFX_ERR_MORE_DATA) =>
              (pc' = "s2_loop" /\ hist'.nSyncs = hist.nSyncs /\ sts' = sts)
        /\ (pc = "s2_loop" /\ sts = MFX_ERR_MORE_DATA) => pc' = "s2_exit"
        /\ (pc = "s2_exit" /\ sts = MFX_ERR_MORE_DATA) =>
              (pc' = "done" /\ ret' = MFX_ERR_NONE)
        /\ (pc' = "done" /\ ~hist'.otherNegative) => ret' = MFX_ERR_NONE ]_vars

\* C19 witness: MFX_ERR_MORE_DATA came from a real submission, from the input
\* and from a null submission, no other negative status was seen, and the
\* session reached Idle
C19_Witness ==
    /\ Idle
    /\ hist.bufferedSeen
    /\ hist.inputExhausted
    /\ hist.termSeen
    /\ ~hist.otherNegative

\* one step of a retry loop: it is left exactly when the device returns a
\* handle or a status that is not positive; otherwise the same call is due
\* again and nothing else has changed
RetryLoopStep ==
    pc \in EncodePcs =>
        /\ resp'.valid
        /\ (pc' # pc) <=> (resp'.syncp # NULL \/ resp'.sts <= MFX_ERR_NONE)
        /\ (pc' = pc) => (UNCHANGED <<nEncSurfIdx, surfData, bsLen, inputPos,
                                      nFrame, sink, devQueue, devTasks, nHandles>>)

\* C20: with a finite input and a device that does not keep answering a
\* submission with a positive status and no handle, the session ends, in Idle
\* or with a failure status; a retry loop is left exactly when the device
\* returns a handle or a status that is not positive, so each answer with a
\* positive status and no handle keeps the program in the loop.
C20_SessionEnds == <>(pc = "done") /\ [][RetryLoopStep]_vars

\* C20 witness: a retry loop repeated its call after "device busy", the whole
\* input was read, and the session ended
C20_Witness ==
    /\ pc = "done"
    /\ hist.busyRetried
    /\ inputPos = MaxFrames
    /\ hist.termSeen

\* C21: no frame is lost or counted twice. At every point nFrame is at most
\* the number of loaded frames EncodeFrameAsync has accepted; when the session
\* is in Idle the two are equal, and every frame loaded was accepted; in a
\* session in which the device delivered every unit (no SyncOperation timed
\* out) nFrame is the number of SyncOperation calls, over both loops, that
\* returned MFX_ERR_NONE, and in Idle with output enabled the sink holds the
\* frames 1 .. nFrame, each once.
C21_EveryAcceptedFrameCounted ==
    /\ nFrame <= hist.accepted
    /\ hist.accepted <= inputPos
    /\ Idle => (nFrame = hist.accepted /\ hist.accepted = inputPos)
    /\ ~hist.timedOut =>
          /\ nFrame = hist.okSyncs
          /\ (Idle /\ bEnableOutput) => sink = [i \in 1 .. nFrame |-> i]

\* C21 witness: the whole input was accepted, part of it counted in the drain
\* loop, no SyncOperation timed out, and the session is in Idle
C21_Witness ==
    /\ Idle
    /\ inputPos = MaxFrames
    /\ hist.accepted = MaxFrames
    /\ nFrame = MaxFrames
    /\ hist.drainSyncs >= 1
    /\ hist.drainSyncs < MaxFrames
    /\ ~hist.timedOut
    /\ bEnableOutput
    /\ Len(sink) = MaxFrames

====
